---- MODULE Spec2Model ----
(***************************************************************************)
(* Startup configuration of the proxy server: the ProxyRunOptions struct,  *)
(* its defaults (NewProxyRunOptions), its population from the command line *)
(* (Flags) and its validation (Validate), from                             *)
(* cmd/server/app/options/options.go.                                      *)
(*                                                                         *)
(* Representation of Go values:                                            *)
(*   - a path, a name or a mode is a TLA+ string, "" being Go's "";        *)
(*   - ProxyStrategies (a comma separated string) is the sequence of its   *)
(*     comma separated tokens, << >> being the empty string;                *)
(*   - LeaseLabel (comma separated key=value pairs) is the sequence of its *)
(*     comma separated segments, each the sequence of its "=" separated    *)
(*     parts;                                                              *)
(*   - CipherSuites ([]string) is a sequence of strings;                   *)
(*   - an error is the format string that produced it, NoError being nil.  *)
(***************************************************************************)
EXTENDS Integers, Sequences, FiniteSets, TLC

VARIABLES o, pc, ret

vars == <<o, pc, ret>>

-----------------------------------------------------------------------------
(* Bounds of the explored inputs. *)

\* longest cipher-suite list a command line of the model gives
MaxCiphers == 2

-----------------------------------------------------------------------------
(* Literals of the source. *)

EphemeralPortStart == 49151
ReservedPortEnd == 1024
DefaultServerPort == 8090
DefaultAgentPort == 8091
DefaultHealthPort == 8092
DefaultAdminPort == 8095
DefaultXfrChannelSize == 10

NoError == "nil"
ModeGRPC == "grpc"
ModeHTTPConnect == "http-connect"

-----------------------------------------------------------------------------
(* The file system Validate looks at through os.Stat: one path per outcome. *)

ExistingFile == "/pki/present.pem"
MissingFile == "/pki/missing.pem"
UnreadableDir == "/root-only/denied.pem"

\* os.Stat(path): the error it returns; the empty path names no file
Stat(path) ==
    IF path = "" \/ path = MissingFile THEN "ENOENT"
    ELSE IF path = UnreadableDir THEN "EACCES"
    ELSE NoError

\* os.IsNotExist(err)
IsNotExist(err) == err = "ENOENT"

-----------------------------------------------------------------------------
(* Collaborators of other packages of the repository.                       *)

\* strings.Split(s, ","): the empty string splits into one empty token
SplitComma(s) == IF s = << >> THEN << "" >> ELSE s

KnownStrategies == {"default", "destHost", "defaultRoute"}

\* proxystrategies.ParseProxyStrategies: the error, NoError when it parses
ParseProxyStrategies(s) ==
    IF \E i \in 1..Len(SplitComma(s)) : SplitComma(s)[i] \notin KnownStrategies
    THEN "unknown proxy strategy %s"
    ELSE NoError

\* util.GetAcceptedCiphers: the names of the accepted cipher suites
GetAcceptedCiphers ==
    {"TLS_ECDHE_RSA_WITH_AES_128_GCM_SHA256", "TLS_ECDHE_RSA_WITH_AES_256_GCM_SHA384"}

\* util.ParseLabels: the error, NoError when every segment is key=value
ParseLabels(l) ==
    IF \E i \in 1..Len(l) : Len(l[i]) # 2 \/ l[i][1] = "" \/ l[i][2] = ""
    THEN "invalid label format: %s"
    ELSE NoError

-----------------------------------------------------------------------------
(* NewProxyRunOptions: the default configuration. *)

NewProxyRunOptions ==
    [ ServerCert                |-> "",
      ServerKey                 |-> "",
      ServerCaCert              |-> "",
      ClusterCert               |-> "",
      ClusterKey                |-> "",
      ClusterCaCert             |-> "",
      Mode                      |-> "grpc",
      UdsName                   |-> "",
      DeleteUDSFile             |-> TRUE,
      ServerPort                |-> DefaultServerPort,
      ServerBindAddress         |-> "",
      AgentPort                 |-> DefaultAgentPort,
      AgentBindAddress          |-> "",
      HealthPort                |-> DefaultHealthPort,
      HealthBindAddress         |-> "",
      AdminPort                 |-> DefaultAdminPort,
      AdminBindAddress          |-> "127.0.0.1",
      KeepaliveTime             |-> "1h",
      FrontendKeepaliveTime     |-> "1h",
      EnableProfiling           |-> FALSE,
      EnableContentionProfiling |-> FALSE,
      ServerID                  |-> "defaultServerID()",
      ServerCount               |-> 1,
      AgentNamespace            |-> "",
      AgentServiceAccount       |-> "",
      KubeconfigPath            |-> "",
      KubeconfigQPS             |-> 0,
      KubeconfigBurst           |-> 0,
      APIContentType            |-> "application/vnd.kubernetes.protobuf",
      AuthenticationAudience    |-> "",
      ProxyStrategies           |-> << "default" >>,
      CipherSuites              |-> << >>,
      XfrChannelSize            |-> DefaultXfrChannelSize,
      EnableLeaseController     |-> FALSE,
      LeaseNamespace            |-> "kube-system",
      LeaseLabel                |-> << << "k8s-app", "konnectivity-server" >> >>,
      NeedsKubernetesClient     |-> FALSE ]

Fields == DOMAIN NewProxyRunOptions

-----------------------------------------------------------------------------
(* Validate, rule by rule in the order of the source.  Each rule group is   *)
(* the error it returns on the configuration c, NoError when it passes.     *)
(* A definition marked "fault" is a rule with a plausible slip in it; the    *)
(* properties below are each shown to tell the rule from its fault.         *)

\* the first error of a sequence of rule results
RECURSIVE FirstError(_)
FirstError(errs) ==
    IF errs = << >> THEN NoError
    ELSE IF Head(errs) # NoError THEN Head(errs)
    ELSE FirstError(Tail(errs))

ServerKeyRule(c) ==
    IF c.ServerKey = "" THEN NoError
    ELSE IF IsNotExist(Stat(c.ServerKey)) THEN "error checking server key %s, got %v"
    ELSE IF c.ServerCert = "" THEN "cannot have server cert empty when server key is set to %q"
    ELSE NoError

ServerCertRule(c) ==
    IF c.ServerCert = "" THEN NoError
    ELSE IF IsNotExist(Stat(c.ServerCert)) THEN "error checking server cert %s, got %v"
    ELSE IF c.ServerKey = "" THEN "cannot have server key empty when server cert is set to %q"
    ELSE NoError

ServerCaCertRule(c) ==
    IF c.ServerCaCert # "" /\ IsNotExist(Stat(c.ServerCaCert))
    THEN "error checking server CA cert %s, got %v"
    ELSE NoError

ClusterKeyRule(c) ==
    IF c.ClusterKey = "" THEN NoError
    ELSE IF IsNotExist(Stat(c.ClusterKey)) THEN "error checking cluster key %s, got %v"
    ELSE IF c.ClusterCert = "" THEN "cannot have cluster cert empty when cluster key is set to %q"
    ELSE NoError

\* fault: the certificate is not paired with a key
ClusterCertRuleNoPairing(c) ==
    IF c.ClusterCert = "" THEN NoError
    ELSE IF IsNotExist(Stat(c.ClusterCert)) THEN "error checking cluster cert %s, got %v"
    ELSE NoError

ClusterCertRule(c) ==
    IF c.ClusterCert = "" THEN NoError
    ELSE IF IsNotExist(Stat(c.ClusterCert)) THEN "error checking cluster cert %s, got %v"
    ELSE IF c.ClusterKey = "" THEN "cannot have cluster key empty when cluster cert is set to %q"
    ELSE NoError

ClusterCaCertRule(c) ==
    IF c.ClusterCaCert # "" /\ IsNotExist(Stat(c.ClusterCaCert))
    THEN "error checking cluster CA cert %s, got %v"
    ELSE NoError

ModeRule(c) ==
    IF c.Mode # ModeGRPC /\ c.Mode # ModeHTTPConnect
    THEN "mode must be set to either 'grpc' or 'http-connect' not %q"
    ELSE NoError

\* fault: the CA certificate is let through under UDS
UdsRuleNoCaCheck(c) ==
    IF c.UdsName = "" THEN NoError
    ELSE IF c.ServerPort # 0 THEN "server port should be set to 0 not %d for UDS"
    ELSE IF c.ServerKey # "" THEN "server key should not be set for UDS"
    ELSE IF c.ServerCert # "" THEN "server cert should not be set for UDS"
    ELSE NoError

UdsRule(c) ==
    IF c.UdsName = "" THEN NoError
    ELSE IF c.ServerPort # 0 THEN "server port should be set to 0 not %d for UDS"
    ELSE IF c.ServerKey # "" THEN "server key should not be set for UDS"
    ELSE IF c.ServerCert # "" THEN "server cert should not be set for UDS"
    ELSE IF c.ServerCaCert # "" THEN "server ca cert should not be set for UDS"
    ELSE NoError

EphemeralPortRule(c) ==
    IF c.ServerPort > EphemeralPortStart
    THEN "please do not try to use ephemeral port %d for the server port"
    ELSE IF c.AgentPort > EphemeralPortStart
    THEN "please do not try to use ephemeral port %d for the agent port"
    ELSE IF c.AdminPort > EphemeralPortStart
    THEN "please do not try to use ephemeral port %d for the admin port"
    ELSE IF c.HealthPort > EphemeralPortStart
    THEN "please do not try to use ephemeral port %d for the health port"
    ELSE NoError

\* fault: the lower bound is exclusive
ReservedPortRuleExclusive(c) ==
    IF c.ServerPort <= ReservedPortEnd /\ c.UdsName = ""
    THEN "please do not try to use reserved port %d for the server port"
    ELSE IF c.AgentPort <= ReservedPortEnd
    THEN "please do not try to use reserved port %d for the agent port"
    ELSE IF c.AdminPort <= ReservedPortEnd
    THEN "please do not try to use reserved port %d for the admin port"
    ELSE IF c.HealthPort <= ReservedPortEnd
    THEN "please do not try to use reserved port %d for the health port"
    ELSE NoError

\* fault: a UDS name exempts every listener from the lower bound
ReservedPortRuleUdsExemptsAll(c) ==
    IF c.UdsName # "" THEN NoError
    ELSE IF c.ServerPort < ReservedPortEnd
    THEN "please do not try to use reserved port %d for the server port"
    ELSE IF c.AgentPort < ReservedPortEnd
    THEN "please do not try to use reserved port %d for the agent port"
    ELSE IF c.AdminPort < ReservedPortEnd
    THEN "please do not try to use reserved port %d for the admin port"
    ELSE IF c.HealthPort < ReservedPortEnd
    THEN "please do not try to use reserved port %d for the health port"
    ELSE NoError

ReservedPortRule(c) ==
    IF c.ServerPort < ReservedPortEnd /\ c.UdsName = ""
    THEN "please do not try to use reserved port %d for the server port"
    ELSE IF c.AgentPort < ReservedPortEnd
    THEN "please do not try to use reserved port %d for the agent port"
    ELSE IF c.AdminPort < ReservedPortEnd
    THEN "please do not try to use reserved port %d for the admin port"
    ELSE IF c.HealthPort < ReservedPortEnd
    THEN "please do not try to use reserved port %d for the health port"
    ELSE NoError

ProfilingRule(c) ==
    IF c.EnableContentionProfiling /\ ~c.EnableProfiling
    THEN "if --enable-contention-profiling is set, --enable-profiling must also be set"
    ELSE NoError

usingServiceAccountAuth(c) ==
    c.AgentNamespace # "" \/ c.AgentServiceAccount # "" \/ c.AuthenticationAudience # ""

\* fault: the audience is not required
ServiceAccountAuthRuleNoAudience(c) ==
    IF ~usingServiceAccountAuth(c) THEN NoError
    ELSE IF c.ClusterCaCert # ""
    THEN "--cluster-ca-cert can not be used when agent authentication is enabled"
    ELSE IF c.AgentNamespace = ""
    THEN "--agent-namespace cannot be empty when agent authentication is enabled"
    ELSE IF c.AgentServiceAccount = ""
    THEN "--agent-service-account cannot be empty when agent authentication is enabled"
    ELSE NoError

ServiceAccountAuthRule(c) ==
    IF ~usingServiceAccountAuth(c) THEN NoError
    ELSE IF c.ClusterCaCert # ""
    THEN "--cluster-ca-cert can not be used when agent authentication is enabled"
    ELSE IF c.AgentNamespace = ""
    THEN "--agent-namespace cannot be empty when agent authentication is enabled"
    ELSE IF c.AgentServiceAccount = ""
    THEN "--agent-service-account cannot be empty when agent authentication is enabled"
    ELSE IF c.AuthenticationAudience = ""
    THEN "--authentication-audience cannot be empty when agent authentication is enabled"
    ELSE NoError

\* fault: any error of os.Stat rejects the path
KubeconfigRuleAnyStatError(c) ==
    IF c.KubeconfigPath # "" /\ Stat(c.KubeconfigPath) # NoError
    THEN "checking KubeconfigPath %q, got %v"
    ELSE NoError

KubeconfigRule(c) ==
    IF c.KubeconfigPath # "" /\ IsNotExist(Stat(c.KubeconfigPath))
    THEN "checking KubeconfigPath %q, got %v"
    ELSE NoError

ProxyStrategiesRule(c) ==
    IF Len(c.ProxyStrategies) = 0 THEN "ProxyStrategies cannot be empty"
    ELSE IF ParseProxyStrategies(c.ProxyStrategies) # NoError
    THEN "invalid proxy strategies: %v"
    ELSE NoError

\* fault: a channel size of 0 is let through
XfrChannelSizeRuleAllowsZero(c) ==
    IF c.XfrChannelSize < 0 THEN "channel size %d must be greater than 0" ELSE NoError

XfrChannelSizeRule(c) ==
    IF c.XfrChannelSize <= 0 THEN "channel size %d must be greater than 0" ELSE NoError

CipherSuitesRule(c) ==
    IF /\ Len(c.CipherSuites) # 0
       /\ \E i \in 1..Len(c.CipherSuites) : c.CipherSuites[i] \notin GetAcceptedCiphers
    THEN "cipher suite %s not supported, doesn't exist or considered as insecure"
    ELSE NoError

LeaseLabelRule(c) ==
    IF c.EnableLeaseController THEN ParseLabels(c.LeaseLabel) ELSE NoError

\* fault: the lower bounds are checked before the upper bounds
ValidateRulesReservedFirst(c) ==
    << ServerKeyRule(c), ServerCertRule(c), ServerCaCertRule(c),
       ClusterKeyRule(c), ClusterCertRule(c), ClusterCaCertRule(c),
       ModeRule(c), UdsRule(c),
       ReservedPortRule(c), EphemeralPortRule(c),
       ProfilingRule(c), ServiceAccountAuthRule(c), KubeconfigRule(c),
       ProxyStrategiesRule(c), XfrChannelSizeRule(c), CipherSuitesRule(c),
       LeaseLabelRule(c) >>

\* fault: the kubeconfig is checked before the service-account block
ValidateRulesKubeconfigFirst(c) ==
    << ServerKeyRule(c), ServerCertRule(c), ServerCaCertRule(c),
       ClusterKeyRule(c), ClusterCertRule(c), ClusterCaCertRule(c),
       ModeRule(c), UdsRule(c),
       EphemeralPortRule(c), ReservedPortRule(c),
       ProfilingRule(c), KubeconfigRule(c), ServiceAccountAuthRule(c),
       ProxyStrategiesRule(c), XfrChannelSizeRule(c), CipherSuitesRule(c),
       LeaseLabelRule(c) >>

\* the rules in the order Validate evaluates them
ValidateRules(c) ==
    << ServerKeyRule(c), ServerCertRule(c), ServerCaCertRule(c),
       ClusterKeyRule(c), ClusterCertRule(c), ClusterCaCertRule(c),
       ModeRule(c), UdsRule(c),
       EphemeralPortRule(c), ReservedPortRule(c),
       ProfilingRule(c), ServiceAccountAuthRule(c), KubeconfigRule(c),
       ProxyStrategiesRule(c), XfrChannelSizeRule(c), CipherSuitesRule(c),
       LeaseLabelRule(c) >>

\* the error Validate returns on c
ValidateError(c) == FirstError(ValidateRules(c))

\* fault: the derived field is only ever raised, never cleared
ValidateEffectSticky(c) ==
    IF ValidateError(c) = NoError
    THEN [c EXCEPT !.NeedsKubernetesClient =
                       c.NeedsKubernetesClient \/ usingServiceAccountAuth(c)
                           \/ c.EnableLeaseController]
    ELSE c

\* fault: the derived field is written before the rules are evaluated
ValidateEffectEager(c) ==
    [c EXCEPT !.NeedsKubernetesClient =
                  usingServiceAccountAuth(c) \/ c.EnableLeaseController]

\* the configuration Validate leaves behind: the derived field is written
\* on success only
ValidateEffect(c) ==
    IF ValidateError(c) = NoError
    THEN [c EXCEPT !.NeedsKubernetesClient =
                       usingServiceAccountAuth(c) \/ c.EnableLeaseController]
    ELSE c

-----------------------------------------------------------------------------
(* The command lines explored.  Every field Flags binds can be given any    *)
(* value of its type; each set below varies the fields of one part of       *)
(* Validate over values on both sides of every test that part makes and     *)
(* leaves the other fields at their defaults.  NeedsKubernetesClient is an  *)
(* exported field no flag binds: it is FALSE after construction and can be  *)
(* TRUE when the same struct was validated before or written by the caller. *)

AnyPath == {"", ExistingFile, MissingFile, UnreadableDir}
SomeUds == "/var/run/konnectivity.sock"
SomeName == "konnectivity"

PortValues ==
    { -1, 0, ReservedPortEnd - 1, ReservedPortEnd, ReservedPortEnd + 1,
      EphemeralPortStart, EphemeralPortStart + 1 }

PortConfigs ==
    { [NewProxyRunOptions EXCEPT !.ServerPort = s, !.AgentPort = a,
                                 !.AdminPort = d, !.HealthPort = h,
                                 !.UdsName = u] :
        s \in PortValues \cup {DefaultServerPort},
        a \in PortValues \cup {DefaultAgentPort},
        d \in PortValues \cup {DefaultAdminPort},
        h \in PortValues \cup {DefaultHealthPort},
        u \in {"", SomeUds} }

TLSConfigs ==
    { [NewProxyRunOptions EXCEPT !.ServerKey = sk, !.ServerCert = sc,
                                 !.ServerCaCert = sa, !.ClusterKey = ck,
                                 !.ClusterCert = cc, !.ClusterCaCert = ca,
                                 !.UdsName = up[1], !.ServerPort = up[2]] :
        sk \in AnyPath, sc \in AnyPath, sa \in {"", ExistingFile, MissingFile},
        ck \in AnyPath, cc \in AnyPath, ca \in {"", MissingFile},
        up \in {"", SomeUds} \X {0, DefaultServerPort} }

GoodLabel == << << "k8s-app", "my-app" >> >>
BadLabels == { << << "k8s-app" >> >>, << << "k8s-app", "my-app" >>, << "", "x" >> >> }

AuthConfigs ==
    { [NewProxyRunOptions EXCEPT !.AgentNamespace = ns, !.AgentServiceAccount = sa,
                                 !.AuthenticationAudience = au,
                                 !.ClusterCaCert = ca, !.KubeconfigPath = kc,
                                 !.EnableLeaseController = el, !.LeaseLabel = ll,
                                 !.NeedsKubernetesClient = nk] :
        ns \in {"", SomeName}, sa \in {"", SomeName}, au \in {"", SomeName},
        ca \in AnyPath, kc \in AnyPath, el \in BOOLEAN,
        ll \in {GoodLabel} \cup BadLabels, nk \in BOOLEAN }

\* the cipher-suite lists of at most n names
RECURSIVE CipherLists(_)
CipherLists(n) ==
    IF n = 0 THEN { << >> }
    ELSE LET shorter == CipherLists(n - 1)
         IN  shorter \cup
             { Append(l, x) : l \in shorter,
                              x \in GetAcceptedCiphers \cup {"TLS_RSA_WITH_RC4_128_SHA"} }

StrategyLists ==
    { << >>, << "default" >>, << "destHost", "default" >>, << "defaultRoute" >>,
      << "bogus-strategy" >>, << "default", "bogus-strategy" >>, << "default", "" >> }

ScalarConfigs ==
    { [NewProxyRunOptions EXCEPT !.Mode = m, !.EnableProfiling = ep,
                                 !.EnableContentionProfiling = ec,
                                 !.ProxyStrategies = ps, !.XfrChannelSize = x,
                                 !.CipherSuites = cs,
                                 !.EnableLeaseController = el, !.LeaseLabel = ll] :
        m \in {ModeGRPC, ModeHTTPConnect, "", "GRPC"},
        ep \in BOOLEAN, ec \in BOOLEAN, ps \in StrategyLists,
        x \in {-1, 0, 1, DefaultXfrChannelSize}, cs \in CipherLists(MaxCiphers),
        el \in BOOLEAN, ll \in {GoodLabel} \cup BadLabels }

\* one passing and one or two failing settings for every rule group
OrderConfigs ==
    { [NewProxyRunOptions EXCEPT !.ServerKey = fe[1], !.ServerCert = fe[2],
                                 !.ServerCaCert = fe[3],
                                 !.ClusterKey = be[1], !.ClusterCert = be[2],
                                 !.Mode = m, !.UdsName = u,
                                 !.ServerPort = sp, !.HealthPort = hp,
                                 !.EnableContentionProfiling = ec,
                                 !.AgentNamespace = au[1],
                                 !.AuthenticationAudience = au[2],
                                 !.AgentServiceAccount = au[2],
                                 !.KubeconfigPath = kc, !.ProxyStrategies = ps,
                                 !.XfrChannelSize = x, !.CipherSuites = cs,
                                 !.EnableLeaseController = ll[1], !.LeaseLabel = ll[2],
                                 !.NeedsKubernetesClient = nk] :
        fe \in { << "", "", "" >>, << ExistingFile, "", "" >>,
                 << "", "", MissingFile >> },
        be \in { << "", "" >>, << ExistingFile, MissingFile >> },
        m \in {ModeGRPC, "bogus"}, u \in {"", SomeUds},
        sp \in {0, DefaultServerPort}, hp \in {DefaultHealthPort, EphemeralPortStart + 1},
        ec \in BOOLEAN,
        au \in { << "", "" >>, << SomeName, "" >>, << SomeName, SomeName >> },
        kc \in {"", MissingFile},
        ps \in { << "default" >>, << "bogus-strategy" >> },
        x \in {0, DefaultXfrChannelSize},
        cs \in { << >>, << "TLS_RSA_WITH_RC4_128_SHA" >> },
        ll \in { << FALSE, GoodLabel >>, << TRUE, << << "k8s-app" >> >> >> },
        nk \in BOOLEAN }

\* every stat outcome for each of the seven path flags
PathConfigs ==
    { [NewProxyRunOptions EXCEPT !.ServerKey = sk, !.ServerCert = sc,
                                 !.ServerCaCert = sa, !.ClusterKey = ck,
                                 !.ClusterCert = cc, !.ClusterCaCert = ca,
                                 !.KubeconfigPath = kc] :
        sk \in AnyPath, sc \in AnyPath, sa \in AnyPath, ck \in AnyPath,
        cc \in AnyPath, ca \in AnyPath, kc \in AnyPath }

-----------------------------------------------------------------------------
(* The startup sequence: construct, parse the command line, validate. *)

Init ==
    /\ o = NewProxyRunOptions
    /\ pc = "new"
    /\ ret = NoError

\* Flags().Parse(args): the command line writes the bound fields
Flags(configs) ==
    /\ pc = "new"
    /\ o' \in configs
    /\ pc' = "parsed"
    /\ UNCHANGED ret

\* o.Validate()
Validate ==
    /\ pc = "parsed"
    /\ ret' = ValidateError(o)
    /\ o' = ValidateEffect(o)
    /\ pc' = "validated"

NextPorts == Flags(PortConfigs) \/ Validate
NextTLS == Flags(TLSConfigs) \/ Validate
NextAuth == Flags(AuthConfigs) \/ Validate
NextScalars == Flags(ScalarConfigs) \/ Validate
NextOrder == Flags(OrderConfigs) \/ Validate
NextPaths == Flags(PathConfigs) \/ Validate

SpecPorts == Init /\ [][NextPorts]_vars
SpecTLS == Init /\ [][NextTLS]_vars
SpecAuth == Init /\ [][NextAuth]_vars
SpecScalars == Init /\ [][NextScalars]_vars
SpecOrder == Init /\ [][NextOrder]_vars
SpecPaths == Init /\ [][NextPaths]_vars

Next == NextOrder
Spec == SpecOrder

-----------------------------------------------------------------------------
(* Vocabulary of the properties.  These state what a configuration is, by   *)
(* its fields alone; none of them uses a rule of Validate.                  *)

Done == pc = "validated"
Accepted == Done /\ ret = NoError

Listeners == << "server", "agent", "admin", "health" >>

Port(c, l) ==
    CASE l = "server" -> c.ServerPort
      [] l = "agent" -> c.AgentPort
      [] l = "admin" -> c.AdminPort
      [] l = "health" -> c.HealthPort

EphemeralError(l) ==
    CASE l = "server" -> "please do not try to use ephemeral port %d for the server port"
      [] l = "agent" -> "please do not try to use ephemeral port %d for the agent port"
      [] l = "admin" -> "please do not try to use ephemeral port %d for the admin port"
      [] l = "health" -> "please do not try to use ephemeral port %d for the health port"

ReservedError(l) ==
    CASE l = "server" -> "please do not try to use reserved port %d for the server port"
      [] l = "agent" -> "please do not try to use reserved port %d for the agent port"
      [] l = "admin" -> "please do not try to use reserved port %d for the admin port"
      [] l = "health" -> "please do not try to use reserved port %d for the health port"

\* the range the specification states: 1024 < p <= 49151
InStatedRange(p) == p > 1024 /\ p <= 49151
\* the range with the lower end included: 1024 <= p <= 49151
InRange(p) == p >= 1024 /\ p <= 49151

TooHigh(c, i) == Port(c, Listeners[i]) > 49151
\* the server port is not held to the lower bound when a UDS name is set
TooLow(c, i) == Port(c, Listeners[i]) < 1024 /\ (i = 1 => c.UdsName = "")
OutOfRange(c, i) == TooHigh(c, i) \/ TooLow(c, i)

Missing(path) == path = MissingFile

-----------------------------------------------------------------------------
(* The twelve rule groups, in the order the specification gives them: what  *)
(* violates each, and the errors each produces.                              *)

FrontendTLS == "frontend TLS"
BackendTLS == "backend TLS"
ModeEnum == "mode"
UdsExclusivity == "UDS"
PortRanges == "ports"
ProfilingDependency == "profiling"
ServiceAccountAuth == "service-account auth"
KubeconfigExistence == "kubeconfig"
Strategies == "proxy strategies"
ChannelSize == "channel size"
Ciphers == "cipher suites"
LeaseLabelGroup == "lease label"

GroupOrder ==
    << FrontendTLS, BackendTLS, ModeEnum, UdsExclusivity, PortRanges,
       ProfilingDependency, ServiceAccountAuth, KubeconfigExistence, Strategies,
       ChannelSize, Ciphers, LeaseLabelGroup >>

SetCount(c) ==
    Cardinality({f \in {"AgentNamespace", "AgentServiceAccount", "AuthenticationAudience"} :
                    c[f] # ""})

Violates(c, g) ==
    CASE g = FrontendTLS ->
            \/ Missing(c.ServerKey) \/ Missing(c.ServerCert) \/ Missing(c.ServerCaCert)
            \/ (c.ServerKey = "") # (c.ServerCert = "")
      [] g = BackendTLS ->
            \/ Missing(c.ClusterKey) \/ Missing(c.ClusterCert) \/ Missing(c.ClusterCaCert)
            \/ (c.ClusterKey = "") # (c.ClusterCert = "")
      [] g = ModeEnum -> c.Mode \notin {"grpc", "http-connect"}
      [] g = UdsExclusivity ->
            /\ c.UdsName # ""
            /\ \/ c.ServerPort # 0
               \/ c.ServerKey # "" \/ c.ServerCert # "" \/ c.ServerCaCert # ""
      [] g = PortRanges -> \E i \in 1..4 : OutOfRange(c, i)
      [] g = ProfilingDependency -> c.EnableContentionProfiling /\ ~c.EnableProfiling
      [] g = ServiceAccountAuth ->
            \/ SetCount(c) \in {1, 2}
            \/ SetCount(c) = 3 /\ c.ClusterCaCert # ""
      [] g = KubeconfigExistence -> Missing(c.KubeconfigPath)
      [] g = Strategies ->
            \/ c.ProxyStrategies = << >>
            \/ \E i \in 1..Len(c.ProxyStrategies) :
                  c.ProxyStrategies[i] \notin {"default", "destHost", "defaultRoute"}
      [] g = ChannelSize -> c.XfrChannelSize < 1
      [] g = Ciphers ->
            \E i \in 1..Len(c.CipherSuites) : c.CipherSuites[i] \notin GetAcceptedCiphers
      [] g = LeaseLabelGroup ->
            c.EnableLeaseController /\ ParseLabels(c.LeaseLabel) # NoError

PairingErrors(g) ==
    CASE g = FrontendTLS ->
            { "cannot have server cert empty when server key is set to %q",
              "cannot have server key empty when server cert is set to %q" }
      [] g = BackendTLS ->
            { "cannot have cluster cert empty when cluster key is set to %q",
              "cannot have cluster key empty when cluster cert is set to %q" }

GroupErrors(g) ==
    CASE g = FrontendTLS ->
            PairingErrors(FrontendTLS) \cup
            { "error checking server key %s, got %v",
              "error checking server cert %s, got %v",
              "error checking server CA cert %s, got %v" }
      [] g = BackendTLS ->
            PairingErrors(BackendTLS) \cup
            { "error checking cluster key %s, got %v",
              "error checking cluster cert %s, got %v",
              "error checking cluster CA cert %s, got %v" }
      [] g = ModeEnum -> { "mode must be set to either 'grpc' or 'http-connect' not %q" }
      [] g = UdsExclusivity ->
            { "server port should be set to 0 not %d for UDS",
              "server key should not be set for UDS",
              "server cert should not be set for UDS",
              "server ca cert should not be set for UDS" }
      [] g = PortRanges ->
            { EphemeralError(Listeners[i]) : i \in 1..4 } \cup
            { ReservedError(Listeners[i]) : i \in 1..4 }
      [] g = ProfilingDependency ->
            { "if --enable-contention-profiling is set, --enable-profiling must also be set" }
      [] g = ServiceAccountAuth ->
            { "--cluster-ca-cert can not be used when agent authentication is enabled",
              "--agent-namespace cannot be empty when agent authentication is enabled",
              "--agent-service-account cannot be empty when agent authentication is enabled",
              "--authentication-audience cannot be empty when agent authentication is enabled" }
      [] g = KubeconfigExistence -> { "checking KubeconfigPath %q, got %v" }
      [] g = Strategies ->
            { "ProxyStrategies cannot be empty", "invalid proxy strategies: %v" }
      [] g = ChannelSize -> { "channel size %d must be greater than 0" }
      [] g = Ciphers ->
            { "cipher suite %s not supported, doesn't exist or considered as insecure" }
      [] g = LeaseLabelGroup -> { "invalid label format: %s" }

\* the positions in GroupOrder of the groups c violates
ViolatedGroups(c) == { i \in DOMAIN GroupOrder : Violates(c, GroupOrder[i]) }

ViolatedNames(c) == { GroupOrder[i] : i \in ViolatedGroups(c) }

-----------------------------------------------------------------------------
(* C1 *)

\* C1 as stated: on a TCP configuration (UdsName empty) that violates no rule
\* outside the port ranges and whose other three listener ports are
\* acceptable, Validate accepts a listener's port exactly when
\* 1024 < port <= 49151.
C1_StatedRange ==
    Done /\ o.UdsName = "" /\ ViolatedNames(o) \subseteq {PortRanges} =>
        \A i \in 1..4 :
            (\A k \in (1..4) \ {i} : InStatedRange(Port(o, Listeners[k])))
                => (ret = NoError <=> InStatedRange(Port(o, Listeners[i])))

\* C1 amended: on a TCP configuration (UdsName empty) that violates no rule
\* outside the port ranges and whose other three listener ports are
\* acceptable, Validate accepts a listener's port exactly when
\* 1024 <= port <= 49151: 1023 is rejected, 1024, 1025 and 49151 are
\* accepted, 49152 and above are rejected.
C1_InclusiveRange ==
    Done /\ o.UdsName = "" /\ ViolatedNames(o) \subseteq {PortRanges} =>
        \A i \in 1..4 :
            (\A k \in (1..4) \ {i} : InRange(Port(o, Listeners[k])))
                => (ret = NoError <=> InRange(Port(o, Listeners[i])))

\* a TCP configuration with ports on both ends of the range was accepted
C1_Witness ==
    /\ Accepted
    /\ o.UdsName = ""
    /\ o.AdminPort = 1024
    /\ o.ServerPort = 49151
    /\ o.AgentPort = 1025

-----------------------------------------------------------------------------
(* C3 *)

\* the port ranges are the first rule group the configuration violates
ReachesPortRules(c) ==
    ViolatedNames(c) \cap {FrontendTLS, BackendTLS, ModeEnum, UdsExclusivity} = {}

\* C3 as stated: when no earlier rule group is violated and two or more
\* listener ports are out of range, the error names the earliest
\* out-of-range listener in server, agent, admin, health order, whichever
\* bound each breaks.
C3_EarliestListener ==
    Done /\ ReachesPortRules(o) /\ Cardinality({i \in 1..4 : OutOfRange(o, i)}) >= 2 =>
        LET first == CHOOSE i \in 1..4 :
                        OutOfRange(o, i) /\ \A k \in 1..(i - 1) : ~OutOfRange(o, k)
        IN  ret \in {EphemeralError(Listeners[first]), ReservedError(Listeners[first])}

\* C3 amended: when no earlier rule group is violated and two or more
\* listener ports are out of range, the upper bound is checked for the four listeners in
\* server, agent, admin, health order before the lower bound is checked in
\* the same order: the error names the earliest listener above 49151 if
\* there is one, and otherwise the earliest listener below 1024.
C3_UpperBoundsFirst ==
    Done /\ ReachesPortRules(o) /\ Cardinality({i \in 1..4 : OutOfRange(o, i)}) >= 2 =>
        IF \E i \in 1..4 : TooHigh(o, i)
        THEN LET first == CHOOSE i \in 1..4 :
                             TooHigh(o, i) /\ \A k \in 1..(i - 1) : ~TooHigh(o, k)
             IN  ret = EphemeralError(Listeners[first])
        ELSE LET first == CHOOSE i \in 1..4 :
                             TooLow(o, i) /\ \A k \in 1..(i - 1) : ~TooLow(o, k)
             IN  ret = ReservedError(Listeners[first])

\* the server port is too low, a later listener is too high, and the later
\* listener is the one reported
C3_Witness ==
    /\ Done
    /\ o.UdsName = ""
    /\ o.ServerPort = 1023
    /\ o.AgentPort = 8091
    /\ o.AdminPort = 49152
    /\ o.HealthPort = 0
    /\ ret = EphemeralError("admin")

-----------------------------------------------------------------------------
(* C5 *)

\* C5: an accepted configuration has no agent, admin or health port of 0,
\* and a server port of 0 only with UdsName set; with nothing else wrong
\* a server port of 0 is accepted exactly when UdsName is set.
C5_ZeroPort ==
    /\ Accepted =>
        /\ o.AgentPort # 0 /\ o.AdminPort # 0 /\ o.HealthPort # 0
        /\ o.ServerPort = 0 => o.UdsName # ""
    /\ Done /\ o.ServerPort = 0 /\ ViolatedNames(o) \subseteq {PortRanges, UdsExclusivity}
            /\ (\A i \in 2..4 : InRange(Port(o, Listeners[i])))
            /\ o.ServerKey = "" /\ o.ServerCert = "" /\ o.ServerCaCert = ""
        => (ret = NoError <=> o.UdsName # "")

\* a server port of 0 was accepted under UDS
C5_Witness == Accepted /\ o.ServerPort = 0 /\ o.UdsName # ""

-----------------------------------------------------------------------------
(* C2 *)

\* C2: on a configuration that violates rules of two or more groups, the
\* error Validate returns is one produced by the earliest violated group in
\* the order frontend TLS, backend TLS, mode, UDS, ports, profiling,
\* service-account auth, kubeconfig, strategies, channel size, ciphers,
\* lease label.
C2_EarliestGroup ==
    Done /\ Cardinality(ViolatedGroups(o)) >= 2 =>
        LET first == CHOOSE i \in ViolatedGroups(o) : \A k \in ViolatedGroups(o) : i <= k
        IN  ret \in GroupErrors(GroupOrder[first])

\* three groups are violated and the error is the earliest group's
C2_Witness ==
    /\ Done
    /\ ViolatedNames(o) = {ServiceAccountAuth, KubeconfigExistence, LeaseLabelGroup}
    /\ ret = "--agent-service-account cannot be empty when agent authentication is enabled"

-----------------------------------------------------------------------------
(* C4 *)

\* C4: an accepted configuration with UdsName set has ServerPort 0 and no
\* ServerCert, ServerKey or ServerCaCert; a configuration with UdsName set
\* and ServerPort at its default 8090 is rejected, with the UDS server-port
\* error when no earlier rule group is violated.
C4_UdsExclusive ==
    /\ Accepted /\ o.UdsName # "" =>
        /\ o.ServerPort = 0
        /\ o.ServerCert = "" /\ o.ServerKey = "" /\ o.ServerCaCert = ""
    /\ Done /\ o.UdsName # "" /\ o.ServerPort = 8090 =>
        /\ ret # NoError
        /\ ViolatedNames(o) \cap {FrontendTLS, BackendTLS, ModeEnum} = {}
              => ret = "server port should be set to 0 not %d for UDS"

\* a UDS configuration was accepted
C4_Witness ==
    /\ Accepted
    /\ o.UdsName # ""
    /\ o.ClusterKey # ""

-----------------------------------------------------------------------------
(* C8 *)

\* C8: for the frontend and the backend role, a configuration with exactly
\* one of the role's certificate and key paths set is rejected whatever
\* os.Stat says of the paths, and with both set or both empty the error, if
\* any, is not one of the role's pairing errors.
C8_CertKeyPairing ==
    Done =>
        /\ (o.ServerCert = "") # (o.ServerKey = "") => ret # NoError
        /\ (o.ClusterCert = "") # (o.ClusterKey = "") => ret # NoError
        /\ (o.ServerCert = "") = (o.ServerKey = "") => ret \notin PairingErrors(FrontendTLS)
        /\ (o.ClusterCert = "") = (o.ClusterKey = "") => ret \notin PairingErrors(BackendTLS)

\* a lone certificate whose stat fails for another reason than absence is
\* rejected by the pairing check
C8_Witness ==
    /\ Done
    /\ o.ClusterCert = UnreadableDir
    /\ o.ClusterKey = ""
    /\ ret = "cannot have cluster key empty when cluster cert is set to %q"

-----------------------------------------------------------------------------
(* C6 *)

\* C6: in an accepted configuration AgentNamespace, AgentServiceAccount and
\* AuthenticationAudience are all empty or all set, and when set
\* ClusterCaCert is empty; one or two of the three set is rejected, and all
\* three set with a ClusterCaCert is rejected.
C6_AllOrNothing ==
    /\ Accepted =>
        /\ SetCount(o) \in {0, 3}
        /\ SetCount(o) = 3 => o.ClusterCaCert = ""
    /\ Done /\ SetCount(o) \in {1, 2} => ret # NoError
    /\ Done /\ SetCount(o) = 3 /\ o.ClusterCaCert # "" => ret # NoError

\* service-account authentication was accepted
C6_Witness == Accepted /\ SetCount(o) = 3 /\ o.KubeconfigPath = ExistingFile

-----------------------------------------------------------------------------
(* C7 *)

-----------------------------------------------------------------------------
(* C9 *)

\* C9: a Validate call that returns an error leaves every field as it was,
\* NeedsKubernetesClient included, and one that returns success changes no
\* field but NeedsKubernetesClient.
C9_Frame ==
    [][ pc = "parsed" /\ pc' = "validated" =>
            /\ ret' # NoError => o' = o
            /\ \A f \in Fields \ {"NeedsKubernetesClient"} : o'[f] = o[f] ]_vars

\* a rejected configuration keeps a NeedsKubernetesClient of TRUE that an
\* accepted one would have reset
C9_Witness ==
    /\ Done
    /\ ret # NoError
    /\ o.NeedsKubernetesClient
    /\ SetCount(o) = 0
    /\ ~o.EnableLeaseController

-----------------------------------------------------------------------------
(* C10 *)

\* C10: an accepted configuration has Mode grpc or http-connect,
\* EnableContentionProfiling only with EnableProfiling, a non-empty
\* ProxyStrategies the strategy parser accepts, XfrChannelSize >= 1, every
\* entry of CipherSuites in the accepted set, and, with
\* EnableLeaseController, a LeaseLabel the label parser accepts.
C10_ScalarInvariants ==
    Accepted =>
        /\ o.Mode \in {"grpc", "http-connect"}
        /\ o.EnableContentionProfiling => o.EnableProfiling
        /\ o.ProxyStrategies # << >>
        /\ ParseProxyStrategies(o.ProxyStrategies) = NoError
        /\ o.XfrChannelSize >= 1
        /\ \A i \in 1..Len(o.CipherSuites) : o.CipherSuites[i] \in GetAcceptedCiphers
        /\ o.EnableLeaseController => ParseLabels(o.LeaseLabel) = NoError

\* an accepted configuration that uses every scalar rule
C10_Witness ==
    /\ Accepted
    /\ o.Mode = "http-connect"
    /\ o.EnableContentionProfiling
    /\ Len(o.ProxyStrategies) = 2
    /\ o.XfrChannelSize = 1
    /\ Len(o.CipherSuites) = 2
    /\ o.EnableLeaseController

-----------------------------------------------------------------------------
(* C11 *)

PathFields ==
    { "ServerKey", "ServerCert", "ServerCaCert", "ClusterKey", "ClusterCert",
      "ClusterCaCert", "KubeconfigPath" }

\* the error of the file check on a path field
FileCheckError(f) ==
    CASE f = "ServerKey" -> "error checking server key %s, got %v"
      [] f = "ServerCert" -> "error checking server cert %s, got %v"
      [] f = "ServerCaCert" -> "error checking server CA cert %s, got %v"
      [] f = "ClusterKey" -> "error checking cluster key %s, got %v"
      [] f = "ClusterCert" -> "error checking cluster cert %s, got %v"
      [] f = "ClusterCaCert" -> "error checking cluster CA cert %s, got %v"
      [] f = "KubeconfigPath" -> "checking KubeconfigPath %q, got %v"

\* the stat of the path fails, and not because the file does not exist
StatDenied(path) == path = UnreadableDir

\* C11: the file check on each of the seven path fields fails only on a
\* non-empty path that does not exist (an empty path and a path whose stat
\* fails otherwise never produce its error), a path that does not exist is
\* always rejected, and a configuration that violates no rule is accepted
\* also when the stat of its paths fails for another reason.
C11_OnlyNotExistRejects ==
    Done =>
        /\ \A f \in PathFields : ret = FileCheckError(f) => Missing(o[f])
        /\ (\E f \in PathFields : Missing(o[f])) => ret # NoError
        /\ ViolatedNames(o) = {} => ret = NoError

\* a configuration whose paths cannot be stat-ed for lack of permission is
\* accepted, its empty paths unchecked
C11_Witness ==
    /\ Accepted
    /\ StatDenied(o.ServerKey) /\ StatDenied(o.ServerCert)
    /\ StatDenied(o.KubeconfigPath)
    /\ o.ServerCaCert = "" /\ o.ClusterKey = "" /\ o.ClusterCert = ""
    /\ o.ClusterCaCert = ""

====
